---- MODULE Spec2Model ----
(***************************************************************************)
(* rustrocket_x: the autopost queue-draining pipeline.                     *)
(*                                                                         *)
(* Modelled: commands/autopost.py (discovery, parsing, normalisation,     *)
(* validation, recording, relocation, the run driver) and                 *)
(* utils/twitter.py (TwitterClient.post_tweet / pin_tweet and the client  *)
(* singleton).  The remote API, the file system's move and an external    *)
(* termination of the process are the environment: their outcomes are     *)
(* nondeterministic choices.                                              *)
(*                                                                         *)
(* A text is kept run-length encoded: a sequence of runs [ch, n], n >= 1  *)
(* copies of a character of class ch:                                     *)
(*    "x"  a word character                                               *)
(*    " "  white space (blank or newline)                                 *)
(*    "*"  a Markdown markup character (emphasis delimiter)               *)
(*    "<"  a character of an HTML tag (only in rendered HTML)             *)
(* len(text) is the sum of the run lengths.                               *)
(***************************************************************************)
EXTENDS Integers, Sequences, FiniteSets, TLC

VARIABLES
    queue,          \* files in the queue directory (set of file records)
    done,           \* files in the done directory, autopost.log excluded
    logFile,        \* done/autopost.log: sequence of JSON entries
    pinFile,        \* the pinned-ids file: sequence of lines
    remote,         \* tweets created on the platform, in creation order
    client,         \* utils.twitter._twitter_client of the running process
    pc,             \* position of the running process ("idle": none runs)
    dry_run,        \* autopost_run's dry_run option
    tweet_files,    \* the list discover_tweet_files returned
    idx,            \* position of process_all_tweets's loop in tweet_files
    cur,            \* locals of process_tweet_file / post_tweet for the item
    result,         \* the dictionary process_tweet_file returned
    success_count,  \* process_all_tweets's counters
    error_count,
    trace,          \* observed calls, waits and requests of the current item
    outcomes,       \* per processed item of this run: how the loop counted it
    lastDry,        \* what the last completed dry run saw and reported
    runs,           \* number of autopost_run invocations so far
    faults,         \* failures the environment has injected so far
    outfiles,       \* the files "metrics pull" has written, by path
    pull,           \* the "metrics pull" command under way, or the last one
    cli             \* cli.py: the counters and the invocations of the app

vars == <<queue, done, logFile, pinFile, remote, client, pc, dry_run,
          tweet_files, idx, cur, result, success_count,
          error_count, trace, outcomes, lastDry, runs, faults,
          outfiles, pull, cli>>

persisted == <<queue, done, logFile, pinFile, remote>>

-----------------------------------------------------------------------------
(* Bounds of the model. *)

\* autopost_run invocations explored
MaxRuns == 2

\* tweet files in the queue directory at the start
MaxQueue == 2

\* failures the environment injects in one behaviour: error answers and
\* exceptions of the remote API, failed moves, terminations of the process
MaxFaults == 2

\* the cap (--max-tweets) of the re-runs explored
RerunCap == 1

\* lines the pinned-ids file grows to
MaxPinLines == 4

\* invocations of "metrics pull" explored
MaxPulls == 2

\* get_twitter_client calls of one process explored
MaxCalls == 4

\* invocations of the CLI app in one process explored
MaxInvocations == 3

-----------------------------------------------------------------------------
(* Program constants. *)

\* validate_tweet_length's default max_length
MaxTweetLength == 280

\* a client limit one below the validator's
ClientMaxLengthBelow == MaxTweetLength - 1

\* the literal of TwitterClient.post_tweet's own length check
ClientMaxLength == 280

\* no pacing delay at all
PacingNone == 1 - 1

\* time.sleep(1) before the request
PacingSeconds == 1

\* the cooldown as short as the pacing delay
CooldownAsPacing == PacingSeconds

\* time.sleep(60) after a 429
CooldownSeconds == 60

\* the default of --max-tweets
DefaultMaxTweets == 10

\* response.status_code == 429
RateLimitStatus == 429

DryRunTweetId == "dry_run_tweet_id_12345"

-----------------------------------------------------------------------------
(* Texts. *)

R(c, k) == [ch |-> c, n |-> k]

RECURSIVE len(_)
len(text) ==
    IF text = <<>> THEN 0 ELSE Head(text).n + len(Tail(text))

IsSpace(run) == run.ch = " "

RECURSIVE lstrip(_)
lstrip(text) ==
    IF text = <<>> THEN <<>>
    ELSE IF IsSpace(Head(text)) THEN lstrip(Tail(text))
    ELSE text

RECURSIVE rstrip(_)
rstrip(text) ==
    IF text = <<>> THEN <<>>
    ELSE IF IsSpace(text[Len(text)]) THEN rstrip(SubSeq(text, 1, Len(text) - 1))
    ELSE text

\* str.strip()
strip(text) == rstrip(lstrip(text))

\* markdown.markdown(content): the paragraph is wrapped in <p> (3 characters)
\* and </p> (4 characters); an emphasis delimiter ** becomes <strong> (8) or
\* </strong> (9), a delimiter * becomes <em> (4) or </em> (5).  Delimiters
\* of the modelled documents are balanced; the opening and the closing tag
\* are both strippable, so only their being tags matters below.
Tag(run) == R("<", IF run.n = 2 THEN 8 ELSE 4)

markdown_render(content) ==
    <<R("<", 3)>>
    \o [i \in 1..Len(content) |->
           IF content[i].ch = "*" THEN Tag(content[i]) ELSE content[i]]
    \o <<R("<", 4)>>

\* re.sub(r"<[^>]+>", "", html)
strip_tags(html) == SelectSeq(html, LAMBDA run: run.ch # "<")

\* " ".join(text.split()): white-space runs become one blank, none at the ends
RECURSIVE collapse(_)
collapse(text) ==
    IF text = <<>> THEN <<>>
    ELSE LET h == Head(text)
             r == collapse(Tail(text))
         IN  IF ~IsSpace(h) THEN <<h>> \o r
             ELSE IF r = <<>> \/ IsSpace(Head(r)) THEN r
             ELSE <<R(" ", 1)>> \o r

join_split(text) == lstrip(collapse(text))

markdown_to_text(content) == strip(join_split(strip_tags(markdown_render(content))))

\* an off-by-one validator
validate_tweet_length_lenient(text, max_length) == len(text) <= max_length + 1

validate_tweet_length(text, max_length) == len(text) <= max_length

-----------------------------------------------------------------------------
(* Files.  A name is the tuple of its dot-separated parts, the suffixes    *)
(* with their dot: <<"a", ".tweet", ".md">> is a.tweet.md.                 *)

\* Path.suffix
suffix(name) == IF Len(name) >= 2 THEN name[Len(name)] ELSE ""

\* a glob on the last suffix alone: "*.md" / "*.txt"
glob_match_last_suffix(name, pattern) ==
    /\ Len(name) >= 2
    /\ name[Len(name)] = pattern[Len(pattern)]

\* Path.glob("*.tweet.md") / Path.glob("*.tweet.txt")
glob_match(name, pattern) ==
    /\ Len(name) >= 3
    /\ SubSeq(name, Len(name) - 1, Len(name)) = pattern

Patterns == << <<".tweet", ".md">>, <<".tweet", ".txt">> >>

Meta(pin, reply_to) == [pin |-> pin, reply_to |-> reply_to]

NoMeta == <<>>

\* dict.get(key, default)
get(d, key, default) == IF key \in DOMAIN d THEN d[key] ELSE default

File(name, mtime, yaml, metadata, body) ==
    [name |-> name, mtime |-> mtime, yaml |-> yaml, metadata |-> metadata,
     body |-> body]

\* a.tweet.txt: exactly 280 characters once stripped
FileA == File(<<"a", ".tweet", ".txt">>, 1, "ok", [pin |-> FALSE],
              <<R(" ", 2), R("x", 280), R(" ", 1)>>)

\* b.tweet.md: pin requested; 286 characters as written, 280 as plain text
FileB == File(<<"b", ".tweet", ".md">>, 2, "ok", [pin |-> TRUE],
              <<R("*", 2), R("x", 278), R("*", 2), R(" ", 3), R("x", 1)>>)

\* c.tweet.txt: 281 characters (the markup counts in a plain-text file)
FileC == File(<<"c", ".tweet", ".txt">>, 3, "ok", [reply_to |-> "77"],
              <<R("*", 1), R("x", 279), R("*", 1)>>)

\* d.tweet.txt: a front-matter block that is not valid YAML; the oldest
\* file of a queue, so that other items follow it
FileD == File(<<"d", ".tweet", ".txt">>, 0, "malformed", NoMeta,
              <<R("x", 5)>>)

\* notes.txt: matches neither pattern; it lies in every queue
FileN == File(<<"notes", ".txt">>, 5, "ok", NoMeta, <<R("x", 3)>>)

\* an older a.tweet.txt, in the done directory from the start
FileOldA == File(<<"a", ".tweet", ".txt">>, 0, "ok", NoMeta, <<R("x", 1)>>)

\* the tweet files a queue may hold at the start
FileUniverse == {FileA, FileB, FileC, FileD}

Names(dir) == {f.name : f \in dir}

\* a parser that takes every block
parse_ok_lenient(file) == TRUE

\* frontmatter.load(f): raises on a malformed block
parse_ok(file) == file.yaml = "ok"

-----------------------------------------------------------------------------
(* Results, errors and observed events. *)

Failure(error, text, metadata) ==
    [success |-> FALSE, error |-> error, text |-> text, metadata |-> metadata]

Success(tweet_id, text, metadata, pinned) ==
    [success |-> TRUE, tweet_id |-> tweet_id, text |-> text,
     metadata |-> metadata, pinned |-> pinned]

\* process_tweet_file's except clause
Caught(e) == Failure(e, <<>>, NoMeta)

TooLongError(n) ==
    "Tweet too long: " \o ToString(n) \o " characters (max 280)"

NoSessionError == "OAuth session not initialized"

YamlError == "mapping values are not allowed here"

ConnectionError == "Connection aborted"

\* str(HTTPError) of response.raise_for_status()
HttpError(status) == ToString(status) \o " Client Error"

PostFailed(e) == "Failed to post tweet: " \o e

PinFailed(tweet_id, e) == "Failed to pin tweet " \o tweet_id \o ": " \o e

Event(op, n) == [op |-> op, n |-> n]

EvPostTweet(text) == Event("post_tweet", len(text))
EvSleep(secs) == Event("sleep", secs)
EvPinTweet == Event("pin_tweet", 0)

\* a request, with the status it was answered with (Raised: it raised)
Raised == 0
EvPost(status) == Event("POST /2/tweets", status)
EvPin(status) == Event("POST /1.1/statuses/pin.json", status)

\* shutil.move, with how it ended (Moved, or Raised)
Moved == 1
EvMove(how) == Event("shutil.move", how)

\* status codes the remote API answers with
PostStatuses == {201, 403, 429}
PinStatuses == {200, 403}

\* response.raise_for_status() raises
IsErrorStatus(status) == status >= 400

\* the id the platform gives its next tweet
NextTweetId == "t" \o ToString(Len(remote) + 1)

NoClient == [exists |-> FALSE]

NoResult == [success |-> FALSE]

NoCur == [text |-> <<>>, metadata |-> <<>>, attempt |-> 0, tweet_id |-> ""]

NoDry == [files |-> <<>>, outcomes |-> <<>>]

\* values of --max-tweets explored
Caps == {0, 1, DefaultMaxTweets}

-----------------------------------------------------------------------------
(* utils/twitter.py *)

\* TwitterClient.__init__ / _setup_oauth: a session only when live and all
\* four credentials are set
TwitterClient(dry, credentials_complete) ==
    [exists |-> TRUE, dry_run |-> dry,
     session |-> (~dry /\ credentials_complete)]

\* a client that is live whatever flag was asked for
get_twitter_client_live(c, dry, credentials_complete) ==
    TwitterClient(FALSE, credentials_complete)

\* a new client on every call
get_twitter_client_fresh(c, dry, credentials_complete) ==
    TwitterClient(dry, credentials_complete)

get_twitter_client(c, dry, credentials_complete) ==
    IF ~c.exists \/ c.dry_run # dry
    THEN TwitterClient(dry, credentials_complete)
    ELSE c

\* retrying on every 429, the retry's included
retry_after_every_429(attempt, status) == status = RateLimitStatus

\* retrying on every error status of the first response
retry_after_any_error(attempt, status) == attempt = 1 /\ IsErrorStatus(status)

\* post_tweet retries when the first response is a 429
retry_after(attempt, status) == attempt = 1 /\ status = RateLimitStatus

-----------------------------------------------------------------------------
(* commands/autopost.py *)

Min(a, b) == IF a < b THEN a ELSE b
Max(a, b) == IF a > b THEN a ELSE b

\* list[:k + 1]: one item too many
slice_to_inclusive(list, k) == SubSeq(list, 1, Min(k + 1, Len(list)))

\* list[:k]
slice_to(list, k) ==
    SubSeq(list, 1, IF k >= 0 THEN Min(k, Len(list))
                    ELSE Max(Len(list) + k, 0))

PatternIndex(file) ==
    CHOOSE i \in 1..Len(Patterns) : glob_match(file.name, Patterns[i])

Matching(dir) ==
    {f \in dir : \E i \in 1..Len(Patterns) : glob_match(f.name, Patterns[i])}

\* newest first: the sort with its order reversed
sorted_lists_newest_first(files) ==
    {s \in [1..Cardinality(files) -> files] :
        /\ \A i, j \in DOMAIN s : i # j => s[i] # s[j]
        /\ \A i, j \in DOMAIN s : i < j => s[i].mtime >= s[j].mtime}

\* The lists tweet_files.sort(key=mtime) can leave: the glob results of the
\* first pattern precede those of the second, each in directory order, and
\* the sort is stable.
sorted_lists(files) ==
    {s \in [1..Cardinality(files) -> files] :
        /\ \A i, j \in DOMAIN s : i # j => s[i] # s[j]
        /\ \A i, j \in DOMAIN s : i < j =>
              \/ s[i].mtime < s[j].mtime
              \/ /\ s[i].mtime = s[j].mtime
                 /\ PatternIndex(s[i]) <= PatternIndex(s[j])}

discover_tweet_files(dir, cap) ==
    {slice_to(s, cap) : s \in sorted_lists(Matching(dir))}

\* json.dumps(log_entry): the entry log_tweet_result appends (the timestamp
\* is left out)
\* an entry that carries the id only when the item was pinned
log_entry_id_if_pinned(filename, tweet_id, text, metadata, success, error) ==
    [filename |-> filename,
     tweet_id |-> IF get(metadata, "pin", FALSE) THEN tweet_id ELSE "",
     text |-> text, metadata |-> metadata, success |-> success,
     error |-> error, char_count |-> len(text)]

log_entry(filename, tweet_id, text, metadata, success, error) ==
    [filename |-> filename, tweet_id |-> tweet_id, text |-> text,
     metadata |-> metadata, success |-> success, error |-> error,
     char_count |-> len(text)]

\* error=None
None == "None"

\* a move that gives way to a file of that name already there
move_keep_existing(dir, file) ==
    IF file.name \in Names(dir) THEN dir ELSE dir \cup {file}

\* shutil.move(src, done/name): replaces a file of that name
move(dir, file) == {f \in dir : f.name # file.name} \cup {file}

\* json.dumps can encode the metadata: it holds no YAML date, which the
\* parser turns into a datetime.date (TypeError: not JSON serializable)
json_serializable(metadata) == "date" \notin DOMAIN metadata

\* the log opened with mode "w": the entry replaces the file's content
log_tweet_result_truncating(log, entry) == <<entry>>

\* log_tweet_result: append the entry as one line; an exception of
\* json.dumps is caught and printed, and nothing is written
log_tweet_result(log, entry) ==
    IF json_serializable(entry.metadata) THEN Append(log, entry) ELSE log

\* logging whatever the mode
log_always(dry, log, entry) == Append(log, entry)

\* the else branch logs the error "if not dry_run"
log_if_live(dry, log, entry) ==
    IF ~dry THEN log_tweet_result(log, entry) ELSE log

\* an except clause that forgets to count
on_unexpected_error_uncounted(count) == count

\* the except clause of process_all_tweets's loop
on_unexpected_error(count) == count + 1

\* where process_tweet_file stands after a step: the next position, the
\* result (once it has returned), its locals and the events observed
Step(p, r, c, t) == [pc |-> p, result |-> r, cur |-> c, trace |-> t]

Returned(r, t) == Step("record", r, NoCur, t)

\* pinning every posted item of a live run, whatever its metadata
pin_always(tweet_id, text, metadata, t) ==
    LET called == Append(t, EvPinTweet)
    IN  IF ~dry_run
        THEN IF client.dry_run
             THEN Returned(Success(tweet_id, text, metadata, TRUE), called)
             ELSE IF ~client.session
             THEN Returned(Caught(NoSessionError), called)
             ELSE Step("pin", NoResult,
                       [text |-> text, metadata |-> metadata, attempt |-> 0,
                        tweet_id |-> tweet_id], called)
        ELSE Returned(Success(tweet_id, text, metadata, FALSE), t)

\* process_tweet_file after post_tweet returned tweet_id: "Pin if requested"
\* with pin_tweet's entry (dry-run client, missing session), then the
\* success dictionary
pin_if_requested(tweet_id, text, metadata, t) ==
    LET should_pin == get(metadata, "pin", FALSE)
        called == Append(t, EvPinTweet)
    IN  IF should_pin /\ ~dry_run
        THEN IF client.dry_run
             THEN Returned(Success(tweet_id, text, metadata, should_pin), called)
             ELSE IF ~client.session
             THEN Returned(Caught(NoSessionError), called)
             ELSE Step("pin", NoResult,
                       [text |-> text, metadata |-> metadata, attempt |-> 0,
                        tweet_id |-> tweet_id], called)
        ELSE Returned(Success(tweet_id, text, metadata, should_pin), t)

\* a post_tweet that goes to its request without looking at the session
post_tweet_unchecked_session(text, metadata) ==
    LET called == <<EvPostTweet(text)>>
    IN  IF len(text) > ClientMaxLength
        THEN Returned(Caught(TooLongError(len(text))), called)
        ELSE IF client.dry_run
        THEN pin_if_requested(DryRunTweetId, text, metadata, called)
        ELSE Step("pace", NoResult,
                  [text |-> text, metadata |-> metadata, attempt |-> 1,
                   tweet_id |-> ""], called)

\* TwitterClient.post_tweet up to its try block
post_tweet(text, metadata) ==
    LET called == <<EvPostTweet(text)>>
    IN  IF len(text) > ClientMaxLength
        THEN Returned(Caught(TooLongError(len(text))), called)
        ELSE IF client.dry_run
        THEN pin_if_requested(DryRunTweetId, text, metadata, called)
        ELSE IF ~client.session
        THEN Returned(Caught(NoSessionError), called)
        ELSE Step("pace", NoResult,
                  [text |-> text, metadata |-> metadata, attempt |-> 1,
                   tweet_id |-> ""], called)

\* the text process_tweet_file derives from a parsed file
normalized_text(file) ==
    LET content == strip(file.body)
    IN  IF suffix(file.name) = ".md" THEN markdown_to_text(content) ELSE content

\* process_tweet_file up to the call of post_tweet
process_tweet_file(file) ==
    IF ~parse_ok(file)
    THEN Returned(Caught(YamlError), <<>>)
    ELSE LET text == normalized_text(file)
             metadata == file.metadata
         IN  IF ~validate_tweet_length(text, MaxTweetLength)
             THEN Returned(Failure(TooLongError(len(text)), text, metadata), <<>>)
             ELSE post_tweet(text, metadata)

\* the environment injects a failure
Fault == faults < MaxFaults /\ faults' = faults + 1

Apply(step) ==
    /\ pc' = step.pc
    /\ result' = step.result
    /\ cur' = step.cur
    /\ trace' = step.trace

-----------------------------------------------------------------------------
(* commands/metrics.py: what "metrics pull" starts from. *)

\* the default of --outfile, for the day of the run
default_outfile == "data/x_metrics_<date>.json"

NoFiles == [path \in {default_outfile, "custom_metrics.json"} |->
               [exists |-> FALSE]]

NoPull == [pc |-> "none", n |-> 0, user |-> "", dry_run |-> FALSE,
           outfile |-> "", calls |-> 0, response |-> <<>>,
           metrics_data |-> <<>>,
           displayed |-> <<>>, exit_code |-> 0, before |-> NoFiles]

\* cli.py at the start of the process: RUNS and FAILURES at 0, nothing
\* invoked yet
NoCli == [pc |-> "none", RUNS |-> 0, FAILURES |-> 0, invoked |-> <<>>]

-----------------------------------------------------------------------------
(* The state machine. *)

Init ==
    /\ queue \in {q \cup {FileN} : q \in {m \in SUBSET FileUniverse :
                                               Cardinality(m) <= MaxQueue}}
    /\ done = {FileOldA}
    /\ logFile = <<>>
    /\ pinFile = <<>>
    /\ remote = <<>>
    /\ client = NoClient
    /\ pc = "idle"
    /\ dry_run = FALSE
    /\ tweet_files = <<>>
    /\ idx = 0
    /\ cur = NoCur
    /\ result = NoResult
    /\ success_count = 0
    /\ error_count = 0
    /\ trace = <<>>
    /\ outcomes = <<>>
    /\ lastDry = NoDry
    /\ runs = 0
    /\ faults = 0
    /\ outfiles = NoFiles
    /\ pull = NoPull
    /\ cli = NoCli

\* the process is gone: nothing of its memory is left
ProcessExit ==
    /\ pc' = "idle"
    /\ client' = NoClient
    /\ dry_run' = FALSE
    /\ tweet_files' = <<>>
    /\ idx' = 0
    /\ cur' = NoCur
    /\ result' = NoResult
    /\ success_count' = 0
    /\ error_count' = 0
    /\ trace' = <<>>
    /\ outcomes' = <<>>

\* an autopost_run that sets up the client before it looks at the selection
AutopostRunEmpty_client_first(dry, cap) ==
    /\ pc = "idle"
    /\ runs < MaxRuns
    /\ <<>> \in discover_tweet_files(queue, cap)
    /\ runs' = runs + 1
    /\ client' = get_twitter_client(client, dry, TRUE)
    /\ UNCHANGED <<queue, done, logFile, pinFile, remote, pc, dry_run,
                   tweet_files, idx, cur, result, success_count,
                   error_count, trace, outcomes, lastDry, faults>>
    /\ UNCHANGED <<outfiles, pull, cli>>

\* autopost_run with an empty selection: "No tweet files found", return
AutopostRunEmpty(dry, cap) ==
    /\ pc = "idle"
    /\ runs < MaxRuns
    /\ <<>> \in discover_tweet_files(queue, cap)
    /\ runs' = runs + 1
    /\ UNCHANGED <<queue, done, logFile, pinFile, remote, client, pc, dry_run,
                   tweet_files, idx, cur, result, success_count,
                   error_count, trace, outcomes, lastDry, faults>>
    /\ UNCHANGED <<outfiles, pull, cli>>

\* autopost_run up to process_all_tweets's loop
AutopostRun(dry, cap, credentials_complete) ==
    /\ pc = "idle"
    /\ runs < MaxRuns
    /\ \E files \in discover_tweet_files(queue, cap) :
          /\ files # <<>>
          /\ tweet_files' = files
    /\ runs' = runs + 1
    /\ dry_run' = dry
    /\ client' = get_twitter_client(client, dry, credentials_complete)
    /\ pc' = "item"
    /\ idx' = 1
    /\ success_count' = 0
    /\ error_count' = 0
    /\ outcomes' = <<>>
    /\ trace' = <<>>
    /\ UNCHANGED <<queue, done, logFile, pinFile, remote, cur, result,
                   lastDry, faults>>
    /\ UNCHANGED <<outfiles, pull, cli>>

\* result = process_tweet_file(file_path, twitter_client, dry_run)
ProcessTweetFile ==
    /\ pc = "item"
    /\ Apply(process_tweet_file(tweet_files[idx]))
    /\ UNCHANGED <<queue, done, logFile, pinFile, remote, client, dry_run,
                   tweet_files, idx, success_count, error_count,
                   outcomes, lastDry, runs, faults>>
    /\ UNCHANGED <<outfiles, pull, cli>>

\* time.sleep(1)
Pace ==
    /\ pc = "pace"
    /\ trace' = Append(trace, EvSleep(PacingSeconds))
    /\ pc' = "send"
    /\ UNCHANGED <<queue, done, logFile, pinFile, remote, client, dry_run,
                   tweet_files, idx, cur, result, success_count,
                   error_count, outcomes, lastDry, runs, faults>>
    /\ UNCHANGED <<outfiles, pull, cli>>

\* self.session.post(".../2/tweets") answers with a status; the 429 check,
\* raise_for_status and the rest of post_tweet and process_tweet_file
SessionPostReturns(status) ==
    /\ pc = "send"
    /\ IF IsErrorStatus(status) THEN Fault ELSE faults' = faults
    /\ LET t == Append(trace, EvPost(status))
       IN  /\ remote' = IF status = 201
                        THEN Append(remote, [id |-> NextTweetId,
                                             file |-> tweet_files[idx].name])
                        ELSE remote
           /\ IF retry_after(cur.attempt, status)
              THEN Apply(Step("cooldown", NoResult, cur, t))
              ELSE IF IsErrorStatus(status)
              THEN Apply(Returned(Caught(PostFailed(HttpError(status))), t))
              ELSE Apply(pin_if_requested(NextTweetId, cur.text, cur.metadata, t))
    /\ UNCHANGED <<queue, done, logFile, pinFile, client, dry_run, tweet_files, idx, success_count, error_count, outcomes,
                   lastDry, runs>>
    /\ UNCHANGED <<outfiles, pull, cli>>

\* self.session.post raises (no response)
SessionPostRaises ==
    /\ pc = "send"
    /\ Fault
    /\ Apply(Returned(Caught(PostFailed(ConnectionError)),
                      Append(trace, EvPost(Raised))))
    /\ UNCHANGED <<queue, done, logFile, pinFile, remote, client, dry_run,
                   tweet_files, idx, success_count, error_count,
                   outcomes, lastDry, runs>>
    /\ UNCHANGED <<outfiles, pull, cli>>

\* time.sleep(60), then the retry
Cooldown ==
    /\ pc = "cooldown"
    /\ trace' = Append(trace, EvSleep(CooldownSeconds))
    /\ cur' = [cur EXCEPT !.attempt = 2]
    /\ pc' = "send"
    /\ UNCHANGED <<queue, done, logFile, pinFile, remote, client, dry_run,
                   tweet_files, idx, result, success_count,
                   error_count, outcomes, lastDry, runs, faults>>
    /\ UNCHANGED <<outfiles, pull, cli>>

\* pin_tweet: self.session.post(".../1.1/statuses/pin.json") answers
PinReturns(status) ==
    /\ pc = "pin"
    /\ IF IsErrorStatus(status) THEN Fault ELSE faults' = faults
    /\ LET t == Append(trace, EvPin(status))
       IN  IF IsErrorStatus(status)
           THEN Apply(Returned(Caught(PinFailed(cur.tweet_id, HttpError(status))), t))
           ELSE Apply(Returned(Success(cur.tweet_id, cur.text, cur.metadata,
                                       get(cur.metadata, "pin", FALSE)), t))
    /\ UNCHANGED <<queue, done, logFile, pinFile, remote, client, dry_run,
                   tweet_files, idx, success_count, error_count,
                   outcomes, lastDry, runs>>
    /\ UNCHANGED <<outfiles, pull, cli>>

\* pin_tweet swallowing the failure of its request: the item is returned
\* as posted and pinned
PinRaisesSwallowed ==
    /\ pc = "pin"
    /\ Fault
    /\ Apply(Returned(Success(cur.tweet_id, cur.text, cur.metadata, TRUE),
                      Append(trace, EvPin(Raised))))
    /\ UNCHANGED <<queue, done, logFile, pinFile, remote, client, dry_run,
                   tweet_files, idx, success_count, error_count,
                   outcomes, lastDry, runs>>
    /\ UNCHANGED <<outfiles, pull, cli>>

\* pin_tweet: the request raises
PinRaises ==
    /\ pc = "pin"
    /\ Fault
    /\ Apply(Returned(Caught(PinFailed(cur.tweet_id, ConnectionError)),
                      Append(trace, EvPin(Raised))))
    /\ UNCHANGED <<queue, done, logFile, pinFile, remote, client, dry_run,
                   tweet_files, idx, success_count, error_count,
                   outcomes, lastDry, runs>>
    /\ UNCHANGED <<outfiles, pull, cli>>

Counted(how, t) ==
    [name |-> tweet_files[idx].name, counted |-> how, result |-> result,
     trace |-> t]

\* the loop goes on to the next file, or process_all_tweets returns
NextFile(how, t) ==
    /\ outcomes' = Append(outcomes, Counted(how, t))
    /\ trace' = <<>>
    /\ idx' = idx + 1
    /\ pc' = IF idx = Len(tweet_files) THEN "summary" ELSE "item"

\* if result["success"] in a dry run: only success_count += 1
CountDrySuccess ==
    /\ pc = "record"
    /\ result.success
    /\ dry_run
    /\ success_count' = success_count + 1
    /\ NextFile("success", trace)
    /\ UNCHANGED <<queue, done, logFile, pinFile, remote, client, dry_run,
                   tweet_files, cur, result, error_count, lastDry, runs, faults>>
    /\ UNCHANGED <<outfiles, pull, cli>>

\* log_tweet_result(log_file, file_path.name, tweet_id, text, metadata)
LogSuccess ==
    /\ pc = "record"
    /\ result.success
    /\ ~dry_run
    /\ logFile' = log_tweet_result(logFile,
                         log_entry(tweet_files[idx].name, result.tweet_id,
                                   result.text, result.metadata, TRUE, None))
    /\ pc' = IF result.pinned THEN "save_pinned" ELSE "move"
    /\ UNCHANGED <<queue, done, pinFile, remote, client, dry_run, tweet_files, idx, cur, result, success_count, error_count,
                   trace, outcomes, lastDry, runs, faults>>
    /\ UNCHANGED <<outfiles, pull, cli>>

\* save_pinned_tweet(pin_file_path, tweet_id)
SavePinned ==
    /\ pc = "save_pinned"
    /\ pinFile' = Append(pinFile, result.tweet_id)
    /\ pc' = "move"
    /\ UNCHANGED <<queue, done, logFile, remote, client, dry_run, tweet_files, idx, cur, result, success_count, error_count,
                   trace, outcomes, lastDry, runs, faults>>
    /\ UNCHANGED <<outfiles, pull, cli>>

\* shutil.move succeeds; success_count += 1
MoveSucceeds ==
    /\ pc = "move"
    /\ queue' = queue \ {tweet_files[idx]}
    /\ done' = move(done, tweet_files[idx])
    /\ success_count' = success_count + 1
    /\ NextFile("success", Append(trace, EvMove(Moved)))
    /\ UNCHANGED <<logFile, pinFile, remote, client, dry_run, tweet_files, cur, result, error_count, lastDry, runs, faults>>
    /\ UNCHANGED <<outfiles, pull, cli>>

\* shutil.move raises: the loop's except clause
MoveFails ==
    /\ pc = "move"
    /\ Fault
    /\ error_count' = on_unexpected_error(error_count)
    /\ NextFile("error", Append(trace, EvMove(Raised)))
    /\ UNCHANGED <<queue, done, logFile, pinFile, remote, client, dry_run,
                   tweet_files, cur, result, success_count, lastDry, runs>>
    /\ UNCHANGED <<outfiles, pull, cli>>

\* the else branch: log the error (live run only), error_count += 1
RecordFailure ==
    /\ pc = "record"
    /\ ~result.success
    /\ logFile' = log_if_live(dry_run, logFile,
                              log_entry(tweet_files[idx].name, "",
                                        get(result, "text", <<>>),
                                        get(result, "metadata", NoMeta),
                                        FALSE, result.error))
    /\ error_count' = error_count + 1
    /\ NextFile("error", trace)
    /\ UNCHANGED <<queue, done, pinFile, remote, client, dry_run, tweet_files, cur, result, success_count, lastDry,
                   runs, faults>>
    /\ UNCHANGED <<outfiles, pull, cli>>

\* process_all_tweets returned; display_summary; the process ends
DisplaySummary ==
    /\ pc = "summary"
    /\ lastDry' = IF dry_run
                  THEN [files |-> tweet_files, outcomes |-> outcomes]
                  ELSE lastDry
    /\ ProcessExit
    /\ UNCHANGED <<queue, done, logFile, pinFile, remote, runs, faults>>
    /\ UNCHANGED <<outfiles, pull, cli>>

\* the process is terminated from outside, anywhere in a run
Terminate ==
    /\ pc # "idle"
    /\ Fault
    /\ ProcessExit
    /\ UNCHANGED <<queue, done, logFile, pinFile, remote, lastDry, runs>>
    /\ UNCHANGED <<outfiles, pull, cli>>

\* autopost_status: counts the files of both directories and prints the
\* last five log entries; it opens the log for reading only
AutopostStatus == UNCHANGED vars

Next ==
    \/ \E dry \in BOOLEAN, cap \in Caps : AutopostRunEmpty(dry, cap)
    \/ \E dry \in BOOLEAN, cap \in Caps, cred \in BOOLEAN :
          AutopostRun(dry, cap, cred)
    \/ ProcessTweetFile
    \/ Pace
    \/ \E status \in PostStatuses : SessionPostReturns(status)
    \/ SessionPostRaises
    \/ Cooldown
    \/ \E status \in PinStatuses : PinReturns(status)
    \/ PinRaises
    \/ CountDrySuccess
    \/ LogSuccess
    \/ SavePinned
    \/ MoveSucceeds
    \/ MoveFails
    \/ RecordFailure
    \/ DisplaySummary
    \/ Terminate
    \/ AutopostStatus

Spec == Init /\ [][Next]_vars

-----------------------------------------------------------------------------
(* Observations on the events of an item. *)

PostRequests(t) == SelectSeq(t, LAMBDA e : e.op = "POST /2/tweets")
PinRequests(t) == SelectSeq(t, LAMBDA e : e.op = "POST /1.1/statuses/pin.json")
PostCalls(t) == SelectSeq(t, LAMBDA e : e.op = "post_tweet")
PinCalls(t) == SelectSeq(t, LAMBDA e : e.op = "pin_tweet")
Sleeps(t, secs) == SelectSeq(t, LAMBDA e : e = Event("sleep", secs))

\* process_tweet_file has returned for the current item
Returned_ == pc \in {"record", "save_pinned", "move"}

CurrentFile == tweet_files[idx]

-----------------------------------------------------------------------------
(* C1: a text longer than 280 characters is rejected by the validator with *)
(* the "Tweet too long: <length> ..." Failure before any post or pin call; *)
(* a text of at most 280 characters is not rejected by it; so every post   *)
(* call and every publish request carries a text of at most 280            *)
(* characters.                                                             *)
C1_LengthGate ==
    /\ \A i \in DOMAIN trace :
          trace[i].op = "post_tweet" => trace[i].n <= 280
    /\ pc \in {"pace", "send", "cooldown"} => len(cur.text) <= 280
    /\ (Returned_ /\ parse_ok(CurrentFile)) =>
          LET text == normalized_text(CurrentFile)
          IN  /\ len(text) > 280 =>
                    /\ result = Failure(TooLongError(len(text)), text,
                                        CurrentFile.metadata)
                    /\ trace = <<>>
              /\ len(text) <= 280 =>
                    /\ PostCalls(trace) = <<Event("post_tweet", len(text))>>
                    /\ result.success \/ result.error # TooLongError(len(text))

\* c.tweet.txt (281 characters) has been rejected, nothing was called
C1_Witness ==
    /\ pc = "record"
    /\ parse_ok(CurrentFile)
    /\ len(normalized_text(CurrentFile)) = 281
    /\ ~result.success
    /\ result.error = "Tweet too long: 281 characters (max 280)"
    /\ trace = <<>>

-----------------------------------------------------------------------------
\* the pin request of the current item was sent and failed
PinRequestFailed(t) ==
    \E i \in DOMAIN t : t[i] \in {EvPin(403), EvPin(Raised)}

\* the publish request of the current item was answered with 201
PostCreated(t) == \E i \in DOMAIN t : t[i] = EvPost(201)

(* C2: with pin requested, the post created and the pin request failed,   *)
(* process_tweet_file still returns the posted success (success = true    *)
(* and the post id), and the loop counts and logs the item as a success.  *)
C2_PinFailureKeepsSuccess ==
    /\ (Returned_ /\ PostCreated(trace) /\ PinRequestFailed(trace)) =>
          /\ result.success
          /\ result.tweet_id = remote[Len(remote)].id
    /\ \A i \in DOMAIN outcomes :
          (PostCreated(outcomes[i].trace) /\ PinRequestFailed(outcomes[i].trace)) =>
             /\ outcomes[i].counted # "error"
             /\ \E k \in DOMAIN logFile :
                   /\ logFile[k].filename = outcomes[i].name
                   /\ logFile[k].success
                   /\ logFile[k].tweet_id = outcomes[i].result.tweet_id

-----------------------------------------------------------------------------
(* C3: across runs over the same directories, one at a time, each queue   *)
(* item receives at most one successful post: no two tweets on the        *)
(* platform come from the same queue file.                                *)
C3_AtMostOnePost ==
    \A i, j \in DOMAIN remote :
        i # j => remote[i].file # remote[j].file

-----------------------------------------------------------------------------
\* the statuses the publish requests of the item were answered with
PostAnswers(t) == [i \in DOMAIN PostRequests(t) |-> PostRequests(t)[i].n]

\* post_tweet is still running for the current item
InPostTweet == pc \in {"pace", "send", "cooldown"}

\* post_tweet returned an id for the current item: process_tweet_file went
\* on to the pin call or returned the success dictionary
PostTweetSucceeded ==
    \/ pc = "pin" /\ cur.tweet_id = remote[Len(remote)].id
    \/ Returned_ /\ result.success /\ result.tweet_id = remote[Len(remote)].id
    \/ Returned_ /\ ~result.success /\ PinCalls(trace) # <<>>

\* the events of post_tweet alone (a pin call may follow them)
PostPart(t) ==
    SelectSeq(t, LAMBDA e : e.op \in {"post_tweet", "sleep", "POST /2/tweets"})

(* C4: a live post attempt whose first publish request is answered 429    *)
(* and whose retry is answered 201 ends in Success, and its observed      *)
(* sequence is one request, one wait of 60, one retry: no third request,  *)
(* no second cooldown.                                                    *)
C4_RetryOnceThenSuccess ==
    (~InPostTweet /\ Len(PostAnswers(trace)) >= 2
       /\ PostAnswers(trace)[1] = 429 /\ PostAnswers(trace)[2] = 201) =>
          /\ PostPart(trace) =
                <<Event("post_tweet", len(normalized_text(CurrentFile))),
                  Event("sleep", 1), Event("POST /2/tweets", 429),
                  Event("sleep", 60), Event("POST /2/tweets", 201)>>
          /\ PostTweetSucceeded

\* a.tweet.txt was posted on the retry and process_tweet_file returned it
C4_Witness ==
    /\ pc = "record"
    /\ PostAnswers(trace) = <<429, 201>>
    /\ Sleeps(trace, 60) # <<>>
    /\ result.success
    /\ result.tweet_id = "t1"

-----------------------------------------------------------------------------
-----------------------------------------------------------------------------
\* str(e) of the failure of a publish request answered with status
Underlying(status) ==
    IF status = Raised THEN ConnectionError ELSE HttpError(status)

(* C6: a publish failure other than a rate-limit signal (an error status  *)
(* other than 429, an exception of the request) is not retried: exactly   *)
(* one publish request, no wait of 60, and the item is a Failure whose    *)
(* error is the underlying message with the "Failed to post tweet: " tag. *)
C6_NoRetryOnOtherFailure ==
    (Len(PostAnswers(trace)) >= 1 /\ PostAnswers(trace)[1] \in {403, Raised}) =>
          /\ PostAnswers(trace) = <<PostAnswers(trace)[1]>>
          /\ Sleeps(trace, 60) = <<>>
          /\ pc = "record"
          /\ result = Caught("Failed to post tweet: "
                             \o Underlying(PostAnswers(trace)[1]))

\* a request answered 403: one request, the tagged Failure
C6_Witness ==
    /\ pc = "record"
    /\ PostAnswers(trace) = <<403>>
    /\ result.error = "Failed to post tweet: 403 Client Error"

-----------------------------------------------------------------------------
\* every publish request in t comes right after a time.sleep(1)
EachRequestPaced(t) ==
    \A i \in DOMAIN t :
        t[i].op = "POST /2/tweets" => (i > 1 /\ t[i - 1] = Event("sleep", 1))

(* C7 as stated: every publish request, the retry after a rate-limit      *)
(* signal included, is preceded by its own pacing delay of 1.             *)
C7_EveryRequestPaced ==
    /\ EachRequestPaced(trace)
    /\ \A k \in DOMAIN outcomes : EachRequestPaced(outcomes[k].trace)

\* the first publish request of t follows the post_tweet call and one
\* time.sleep(1); a second one follows the time.sleep(60) directly
PacedOncePerAttempt(t) ==
    /\ Len(Sleeps(t, 1)) <= 1
    /\ \A i \in DOMAIN t :
          t[i].op = "POST /2/tweets" =>
             /\ i > 2
             /\ \/ /\ t[i - 1] = Event("sleep", 1)
                   /\ t[i - 2].op = "post_tweet"
                \/ /\ t[i - 1] = Event("sleep", 60)
                   /\ t[i - 2] = Event("POST /2/tweets", 429)
                   /\ t[i - 3] = Event("sleep", 1)

(* C7, amended: every live post attempt starts with one pacing delay of 1 *)
(* before its first publish request; the retry after a rate-limit signal  *)
(* is preceded by the cooldown of 60 only, with no pacing delay of its    *)
(* own, so no two publish requests happen without a wait between them.    *)
C7_PacedOncePerAttempt ==
    /\ PacedOncePerAttempt(trace)
    /\ \A k \in DOMAIN outcomes : PacedOncePerAttempt(outcomes[k].trace)

\* the retry has been sent: two requests, one pacing delay
C7_Witness ==
    /\ Len(PostRequests(trace)) = 2
    /\ Len(Sleeps(trace, 1)) = 1
    /\ trace[Len(trace) - 1] = Event("sleep", 60)

-----------------------------------------------------------------------------
CountOf(how) ==
    Cardinality({i \in DOMAIN outcomes : outcomes[i].counted = how})

(* C8: whatever fails per item (parse, validation, publish, pin,          *)
(* relocation), process_all_tweets handles every selected item exactly     *)
(* once in list order and its counts add up to the number of items        *)
(* handled; a failed item K is followed by item K+1; at its return        *)
(* success_count + error_count is the number of selected items.           *)
C8_PartialFailureIsolation ==
    pc # "idle" =>
       /\ Len(outcomes) = idx - 1
       /\ idx <= Len(tweet_files) + 1
       /\ \A i \in DOMAIN outcomes : outcomes[i].name = tweet_files[i].name
       /\ success_count = CountOf("success")
       /\ error_count = CountOf("error")
       /\ success_count + error_count = Len(outcomes)
       /\ (pc = "summary") <=> (Len(outcomes) = Len(tweet_files))
       /\ pc = "summary" => success_count + error_count = Len(tweet_files)

\* the first item failed at the relocation and the second one was posted
C8_Witness ==
    /\ pc = "summary"
    /\ Len(tweet_files) = 2
    /\ outcomes[1].counted = "error"
    /\ EvMove(Raised) \in {outcomes[1].trace[i] : i \in DOMAIN outcomes[1].trace}
    /\ outcomes[2].counted = "success"
    /\ success_count = 1
    /\ error_count = 1

-----------------------------------------------------------------------------
NoRequests(t) == PostRequests(t) = <<>> /\ PinRequests(t) = <<>>

\* what a dry run shows at any point: no request was sent, and every item
\* handled so far went through parsing, normalisation, validation and the
\* mock post call
DryRunState ==
    (pc # "idle" /\ dry_run) =>
       /\ NoRequests(trace)
       /\ \A i \in DOMAIN outcomes :
             LET o == outcomes[i]
                 file == tweet_files[i]
                 valid == /\ parse_ok(file)
                          /\ len(normalized_text(file)) <= 280
             IN  /\ NoRequests(o.trace)
                 /\ o.counted = (IF valid THEN "success" ELSE "error")
                 /\ valid => /\ o.trace = <<Event("post_tweet",
                                                 len(normalized_text(file)))>>
                             /\ o.result.tweet_id = DryRunTweetId
                             /\ o.result.text = normalized_text(file)
       /\ pc = "summary" => Len(outcomes) = Len(tweet_files)

(* C9: a dry run leaves the log file, the pinned-id file, the two         *)
(* directories and the platform as they were (no LogRecord, no pinned id, *)
(* no relocation, no publish or pin request), while every selected item   *)
(* is still parsed, normalised, validated and given the mock post call.   *)
C9_DryRunNoSideEffects ==
    /\ []DryRunState
    /\ [][(dry_run \/ dry_run') => UNCHANGED persisted]_vars

\* a dry run over b.tweet.md and c.tweet.txt reached its summary: one mock
\* post, one rejection, both files still queued, nothing written
C9_Witness ==
    /\ pc = "summary"
    /\ dry_run
    /\ Len(outcomes) = 2
    /\ outcomes[1].counted = "success"
    /\ outcomes[1].result.pinned
    /\ outcomes[2].counted = "error"
    /\ {tweet_files[1], tweet_files[2]} \subseteq queue
    /\ logFile = <<>>
    /\ pinFile = <<>>

-----------------------------------------------------------------------------
\* a live run is at its summary after a dry run that selected the same files
DryThenLive ==
    /\ pc = "summary"
    /\ ~dry_run
    /\ lastDry.files = tweet_files

(* C10 as stated: a dry run and a live run over the same queue contents   *)
(* classify every selected item alike, so their success and error counts  *)
(* are equal.                                                             *)
C10_SameClassification ==
    DryThenLive =>
       /\ \A i \in DOMAIN outcomes :
             outcomes[i].counted = lastDry.outcomes[i].counted
       /\ success_count =
             Cardinality({i \in DOMAIN lastDry.outcomes :
                             lastDry.outcomes[i].counted = "success"})

\* every step of the live item went through: session, publish, pin, move
LiveStepsSucceeded(o) ==
    /\ PostCreated(o.trace)
    /\ ~PinRequestFailed(o.trace)
    /\ \E i \in DOMAIN o.trace : o.trace[i] = EvMove(Moved)

(* C10, amended: over the same queue contents, every item a dry run       *)
(* classifies as a failure (parse or validation error) is a failure of    *)
(* the live run too, and an item the dry run classifies as a success is a *)
(* success of the live run exactly when its live publish, pin and         *)
(* relocation steps all succeed; so the live success count never exceeds  *)
(* the dry-run success count and equals it when no live step fails.       *)
C10_DryBoundsLive ==
    DryThenLive =>
       /\ Len(outcomes) = Len(lastDry.outcomes)
       /\ \A i \in DOMAIN outcomes :
             LET live == outcomes[i]
                 dry == lastDry.outcomes[i]
             IN  /\ live.name = dry.name
                 /\ dry.counted = "error" => live.counted = "error"
                 /\ dry.counted = "success" =>
                       /\ PostCalls(live.trace) # <<>>
                       /\ (live.counted = "success") <=> LiveStepsSucceeded(live)
       /\ success_count <=
             Cardinality({i \in DOMAIN lastDry.outcomes :
                             lastDry.outcomes[i].counted = "success"})

\* after a dry run that counted a.tweet.txt a success, the live run over
\* the same file failed at the publish step
C10_Witness ==
    /\ DryThenLive
    /\ Len(outcomes) >= 1
    /\ lastDry.outcomes[1].counted = "success"
    /\ outcomes[1].counted = "error"
    /\ PostRequests(outcomes[1].trace) # <<>>

-----------------------------------------------------------------------------
\* the done directory already holds a file with the current item's name
Collision == CurrentFile.name \in Names(done)

\* the loop leaves the relocation step of the current item
LeavesMove == pc = "move" /\ pc' \in {"item", "summary"}

(* C11: when the relocation of a posted item fails, or the done directory *)
(* already holds a file of the item's name, the item is counted in the    *)
(* error count and not in the success count, and the file that was in the *)
(* done directory is not replaced.                                        *)
C11_RelocationErrorCounted ==
    [][(LeavesMove /\ (Collision \/ CurrentFile \in queue')) =>
          /\ error_count' = error_count + 1
          /\ success_count' = success_count
          /\ done' = done]_vars

-----------------------------------------------------------------------------
(* Re-runs: the driver is invoked again and again, live and with          *)
(* credentials, with one cap, on a queue nobody adds files to.            *)

\* e.tweet.txt: valid and newer than the files that fail in every run
FileE == File(<<"e", ".tweet", ".txt">>, 6, "ok", NoMeta, <<R("x", 4)>>)

\* f.tweet.txt: valid; its front matter holds "date: 2024-01-01"
FileF == File(<<"f", ".tweet", ".txt">>, 7, "ok", [date |-> "2024-01-01"],
              <<R("x", 9)>>)

\* the tweet files the re-run queue may hold at the start
RerunUniverse == {FileA, FileC, FileD, FileE, FileF}

\* invocations explored: one per queued file and one per injected failure
MaxReruns == MaxQueue + MaxFaults

InitRerun ==
    /\ queue \in {q \cup {FileN} : q \in {m \in SUBSET RerunUniverse :
                                               Cardinality(m) <= MaxQueue}}
    /\ done = {FileOldA}
    /\ logFile = <<>>
    /\ pinFile = <<>>
    /\ remote = <<>>
    /\ client = NoClient
    /\ pc = "idle"
    /\ dry_run = FALSE
    /\ tweet_files = <<>>
    /\ idx = 0
    /\ cur = NoCur
    /\ result = NoResult
    /\ success_count = 0
    /\ error_count = 0
    /\ trace = <<>>
    /\ outcomes = <<>>
    /\ lastDry = NoDry
    /\ runs = 0
    /\ faults = 0
    /\ outfiles = NoFiles
    /\ pull = NoPull
    /\ cli = NoCli

\* autopost_run --max-tweets RerunCap, live: up to process_all_tweets's
\* loop, or its return on an empty selection
Rerun ==
    /\ pc = "idle"
    /\ runs < MaxReruns
    /\ runs' = runs + 1
    /\ \E files \in discover_tweet_files(queue, RerunCap) :
          IF files = <<>>
          THEN UNCHANGED <<client, pc, dry_run, tweet_files, idx,
                           success_count, error_count, outcomes, trace>>
          ELSE /\ tweet_files' = files
               /\ dry_run' = FALSE
               /\ client' = get_twitter_client(client, FALSE, TRUE)
               /\ pc' = "item"
               /\ idx' = 1
               /\ success_count' = 0
               /\ error_count' = 0
               /\ outcomes' = <<>>
               /\ trace' = <<>>
    /\ UNCHANGED <<queue, done, logFile, pinFile, remote, cur, result,
                   lastDry, faults>>
    /\ UNCHANGED <<outfiles, pull, cli>>

NextRerun ==
    \/ Rerun
    \/ ProcessTweetFile
    \/ Pace
    \/ \E status \in PostStatuses : SessionPostReturns(status)
    \/ SessionPostRaises
    \/ Cooldown
    \/ LogSuccess
    \/ MoveSucceeds
    \/ MoveFails
    \/ RecordFailure
    \/ DisplaySummary
    \/ Terminate

\* the operator keeps invoking the driver and a started process keeps
\* running; the environment's failures are finitely many
SpecRerun == InitRerun /\ [][NextRerun]_vars /\ WF_vars(NextRerun)

\* the file passes the parser and the validator
Valid(file) ==
    /\ parse_ok(file)
    /\ validate_tweet_length(normalized_text(file), MaxTweetLength)

\* the valid items still queued
ValidQueued == {f \in Matching(queue) : Valid(f)}

\* queued files older than file that fail in every run
OlderFailing(file) ==
    {g \in Matching(queue) : ~Valid(g) /\ g.mtime < file.mtime}

-----------------------------------------------------------------------------
(* C13: with pairwise distinct modification times, the selected items are *)
(* in ascending modification-time order and are handled in that order,    *)
(* one at a time; every matching file left unselected in the queue is     *)
(* newer than every selected item.                                        *)
C13_OldestFirst ==
    pc # "idle" =>
       /\ \A i, j \in DOMAIN tweet_files :
             i < j => tweet_files[i].mtime < tweet_files[j].mtime
       /\ Len(outcomes) = idx - 1
       /\ \A i \in DOMAIN outcomes : outcomes[i].name = tweet_files[i].name
       /\ \A f \in Matching(queue) \ {tweet_files[i] : i \in DOMAIN tweet_files} :
             \A i \in DOMAIN tweet_files : tweet_files[i].mtime < f.mtime

\* a.tweet.txt was handled, then b.tweet.md, the newer of the two
C13_Witness ==
    /\ pc = "summary"
    /\ Len(outcomes) = 2
    /\ tweet_files[1].mtime < tweet_files[2].mtime
    /\ outcomes[1].name = FileA.name
    /\ outcomes[2].name = FileB.name

-----------------------------------------------------------------------------
(* C14: for a cap N >= 0 and a queue with A matching files, discovery     *)
(* returns min(N, A) items (none: the run returns at once), and when      *)
(* process_all_tweets returns exactly that many items have been handled.  *)
C14_CapRespected ==
    [][/\ (pc = "idle" /\ runs' = runs + 1) =>
             \A cap \in Caps :
                (\E files \in discover_tweet_files(queue, cap) :
                    files = tweet_files') =>
                   /\ Len(tweet_files') = Min(cap, Cardinality(Matching(queue)))
                   /\ outcomes' = <<>>
                   /\ tweet_files' = <<>> => pc' = "idle"
       /\ pc' = "summary" =>
             /\ Len(outcomes') = Len(tweet_files')
             /\ success_count' + error_count' = Len(tweet_files')]_vars

\* a dry run with cap 1 over two matching files has handled one item
C14_Witness ==
    /\ pc = "summary"
    /\ dry_run
    /\ Cardinality(Matching(queue)) = 2
    /\ Len(tweet_files) = 1
    /\ Len(outcomes) = 1

-----------------------------------------------------------------------------
\* the names of the files the running process selected
Selected == {tweet_files[i].name : i \in DOMAIN tweet_files}

(* C15: a run leaves alone every queued file it did not select, the       *)
(* matching files beyond the cap and the files that match neither         *)
(* pattern (notes.txt): such a file stays in the queue as it is, and      *)
(* whatever the run handles, posts, logs or relocates is a selected file. *)
C15_UnselectedUntouched ==
    /\ [](/\ FileN \in queue
          /\ FileN.name \notin Selected)
    /\ [][pc # "idle" =>
             /\ {f \in queue : f.name \notin Selected} \subseteq queue'
             /\ \A f \in done' \ done : f.name \in Selected
             /\ \A k \in DOMAIN logFile' \ DOMAIN logFile :
                   logFile'[k].filename \in Selected
             /\ \A k \in DOMAIN remote' \ DOMAIN remote :
                   remote'[k].file \in Selected
             /\ \A k \in DOMAIN outcomes' : outcomes'[k].name \in Selected]_vars

\* a live run with cap 1 relocated a.tweet.txt; b.tweet.md, beyond the
\* cap, and notes.txt are still queued and the log holds one entry
C15_Witness ==
    /\ pc = "summary"
    /\ ~dry_run
    /\ tweet_files = <<FileA>>
    /\ FileA \in done
    /\ queue = {FileB, FileN}
    /\ Len(logFile) = 1
    /\ logFile[1].filename = FileA.name

-----------------------------------------------------------------------------
-----------------------------------------------------------------------------
(* C17: in a live run the loop appends exactly one LogRecord per handled  *)
(* item, succeeded or failed, when process_tweet_file has returned for it *)
(* and at no other point: one record at a time, for the item in hand, in  *)
(* the order of handling.                                                 *)
C17_OneRecordPerItem ==
    [][/\ (pc = "record" /\ ~dry_run /\ pc' \notin {"record", "idle"}) =>
             /\ Len(logFile') = Len(logFile) + 1
             /\ SubSeq(logFile', 1, Len(logFile)) = logFile
             /\ logFile'[Len(logFile')].filename = CurrentFile.name
             /\ logFile'[Len(logFile')].success = result.success
       /\ pc # "record" => logFile' = logFile]_vars

-----------------------------------------------------------------------------
(* C18: the log file and the pinned-id file only grow at their end: over  *)
(* every step of live and dry runs, status calls and recorder operations  *)
(* the content each file had is a prefix of the content it has next, so   *)
(* no record or id line is rewritten, reordered, dropped or removed.      *)
C18_AppendOnly ==
    [][/\ Len(logFile') >= Len(logFile)
       /\ SubSeq(logFile', 1, Len(logFile)) = logFile
       /\ Len(pinFile') >= Len(pinFile)
       /\ SubSeq(pinFile', 1, Len(pinFile)) = pinFile]_vars

\* the second run has appended to a log and to a pinned-id file that the
\* first run had written to
C18_Witness ==
    /\ runs = 2
    /\ pc = "summary"
    /\ Len(logFile) > Len(outcomes)
    /\ Len(pinFile) = 2
    /\ Len(outcomes) = 1
    /\ logFile[Len(logFile)].filename = outcomes[1].name

-----------------------------------------------------------------------------
(* C19: a line is appended to the pinned-id file only in a live run, for  *)
(* the item in hand, when its metadata requested pin, its post was        *)
(* created and its one pin request was answered with success; the line is *)
(* that post's id.  An item whose pin request failed or was never sent    *)
(* adds no line.                                                          *)
C19_PinnedOnlyOnPinSuccess ==
    [][pinFile' # pinFile =>
          /\ ~dry_run
          /\ pinFile' = Append(pinFile, remote[Len(remote)].id)
          /\ remote[Len(remote)].file = CurrentFile.name
          /\ "pin" \in DOMAIN CurrentFile.metadata
          /\ CurrentFile.metadata.pin
          /\ result.success
          /\ result.tweet_id = remote[Len(remote)].id
          /\ PostCreated(trace)
          /\ PinRequests(trace) = <<EvPin(200)>>]_vars

\* b.tweet.md was posted and pinned, and its id is the line appended
C19_Witness ==
    /\ pc = "move"
    /\ CurrentFile = FileB
    /\ PinRequests(trace) = <<EvPin(200)>>
    /\ pinFile = <<"t1">>
    /\ remote[1].id = "t1"

-----------------------------------------------------------------------------
(* C20: for a file whose front-matter block is malformed,                 *)
(* process_tweet_file returns a Failure carrying the parser's message and *)
(* makes no post or pin call; the loop counts the item as an error and    *)
(* goes on: when it returns, every selected item has been handled.        *)
C20_ParseErrorIsolated ==
    pc # "idle" =>
       /\ (Returned_ /\ CurrentFile.yaml = "malformed") =>
             /\ pc = "record"
             /\ result = Failure(YamlError, <<>>, NoMeta)
             /\ trace = <<>>
       /\ \A i \in DOMAIN outcomes :
             tweet_files[i].yaml = "malformed" =>
                /\ outcomes[i].result = Failure(YamlError, <<>>, NoMeta)
                /\ outcomes[i].trace = <<>>
                /\ outcomes[i].counted = "error"
                /\ idx > i
       /\ pc = "summary" => Len(outcomes) = Len(tweet_files)

\* d.tweet.txt failed to parse and a.tweet.txt, after it, was posted
C20_Witness ==
    /\ pc = "summary"
    /\ ~dry_run
    /\ tweet_files = <<FileD, FileA>>
    /\ outcomes[1].result.error = YamlError
    /\ outcomes[1].trace = <<>>
    /\ outcomes[2].counted = "success"
    /\ PostCreated(outcomes[2].trace)

-----------------------------------------------------------------------------
(* C21: the LogRecord a live run writes for an item holds the item's file *)
(* name, the success flag of its result and, as character count, the      *)
(* length of the normalized text computed for the item, also when the     *)
(* item failed after normalization (on a publish error).                  *)
C21_LogRoundTrip ==
    [][(pc = "record" /\ ~dry_run /\ Len(logFile') = Len(logFile) + 1) =>
          LET record == logFile'[Len(logFile')]
          IN  /\ record.filename = CurrentFile.name
              /\ record.success = result.success
              /\ parse_ok(CurrentFile) =>
                    record.char_count = len(normalized_text(CurrentFile))]_vars

-----------------------------------------------------------------------------
(* C22: a run, live or dry, against a queue directory without a matching  *)
(* file is a no-op: no item is processed or counted, no client is set up  *)
(* or called, nothing is posted, logged, pinned or moved; the directories *)
(* and files after a second such run are those after the first.           *)
C22_EmptyQueueNoOp ==
    [][(/\ pc = "idle"
        /\ runs' = runs + 1
        /\ \A f \in queue :
              ~(/\ Len(f.name) >= 3
                /\ f.name[Len(f.name) - 1] = ".tweet"
                /\ f.name[Len(f.name)] \in {".md", ".txt"}))
       => /\ pc' = "idle"
          /\ success_count' = 0 /\ error_count' = 0
          /\ tweet_files' = <<>> /\ outcomes' = <<>> /\ trace' = <<>>
          /\ client' = client
          /\ persisted' = persisted]_vars

\* two runs against a queue that held no tweet file from the start
C22_Witness ==
    /\ pc = "idle"
    /\ runs >= 2
    /\ queue = {FileN}
    /\ done = {FileOldA}
    /\ logFile = <<>> /\ pinFile = <<>> /\ remote = <<>>
    /\ client = NoClient

-----------------------------------------------------------------------------
(* C23: pin_tweet is called only for an item whose metadata asks for the  *)
(* pin, only in a live run, only after the item's post call has returned  *)
(* (the publish request was answered 201, nothing failed before), at most *)
(* once, and with the id that post call returned; an item whose post      *)
(* failed or that the validator rejected has no pin call and no pin       *)
(* request.                                                               *)
C23_PinOnlyAfterPost ==
    LET PinGuarded(t, file) ==
            /\ Len(PinCalls(t)) <= 1
            /\ Len(PinRequests(t)) <= Len(PinCalls(t))
            /\ \A i \in DOMAIN t :
                  t[i] = EvPinTweet =>
                     /\ get(file.metadata, "pin", FALSE)
                     /\ ~dry_run
                     /\ i >= 2
                     /\ t[i - 1] = EvPost(201)
                     /\ \A j \in 1..(i - 1) :
                           t[j] \notin {EvPost(403), EvPost(Raised)}
            /\ \A i \in DOMAIN t :
                  t[i].op = "POST /1.1/statuses/pin.json" =>
                     i >= 2 /\ t[i - 1] = EvPinTweet
    IN  /\ pc \notin {"idle", "item", "summary"} => PinGuarded(trace, CurrentFile)
        /\ \A i \in DOMAIN outcomes : PinGuarded(outcomes[i].trace, tweet_files[i])
        /\ pc = "pin" =>
              /\ remote # <<>>
              /\ remote[Len(remote)].file = CurrentFile.name
              /\ cur.tweet_id = remote[Len(remote)].id
        /\ (Returned_ /\ PinCalls(trace) # <<>> /\ result.success) =>
              result.tweet_id = remote[Len(remote)].id

\* b.tweet.md (pin requested) was posted live and pin_tweet is under way
\* with the id of the post
C23_Witness ==
    /\ pc = "pin"
    /\ ~dry_run
    /\ get(CurrentFile.metadata, "pin", FALSE)
    /\ trace[Len(trace)] = EvPinTweet
    /\ PostCreated(trace)
    /\ cur.tweet_id = remote[Len(remote)].id

-----------------------------------------------------------------------------
(* The pinned-ids file on its own: load_pinned_tweets and                  *)
(* save_pinned_tweet.  Here the file is kept line by line, a line being    *)
(* the text before its newline, and an id is a text: a bare identifier,    *)
(* told from the others by its length.                                     *)

PinIds == {<<R("x", 1)>>, <<R("x", 2)>>}

NoPinFile == [exists |-> FALSE, lines |-> <<>>]

\* open(pin_file, "w"): the file is written anew
save_pinned_tweet_overwriting(file, tweet_id) ==
    [exists |-> TRUE, lines |-> <<tweet_id>>]

\* open(pin_file, "a"); f.write(f"{tweet_id}\n")
save_pinned_tweet(file, tweet_id) ==
    [exists |-> TRUE, lines |-> Append(file.lines, tweet_id)]

\* [line.strip() for line in f if line.strip()]; [] when the file is missing
load_pinned_tweets(file) ==
    IF ~file.exists THEN <<>>
    ELSE SelectSeq([i \in DOMAIN file.lines |->
                       strip(file.lines[i] \o <<R(" ", 1)>>)],
                   LAMBDA line : line # <<>>)

InitPin ==
    /\ queue = {FileN}
    /\ done = {}
    /\ logFile = <<>>
    /\ pinFile = NoPinFile
    /\ remote = <<>>
    /\ client = NoClient
    /\ pc = "idle"
    /\ dry_run = FALSE
    /\ tweet_files = <<>>
    /\ idx = 0
    /\ cur = [pinned_tweets |-> <<>>]
    /\ result = NoResult
    /\ success_count = 0
    /\ error_count = 0
    /\ trace = <<>>
    /\ outcomes = <<>>
    /\ lastDry = NoDry
    /\ runs = 0
    /\ faults = 0
    /\ outfiles = NoFiles
    /\ pull = NoPull
    /\ cli = NoCli

\* save_pinned_tweet(pin_file, tweet_id)
SavePinnedTweet(tweet_id) ==
    /\ Len(pinFile.lines) < MaxPinLines
    /\ pinFile' = save_pinned_tweet(pinFile, tweet_id)
    /\ trace' = Append(trace, Event("save_pinned_tweet", tweet_id))
    /\ pc' = "idle"
    /\ UNCHANGED <<queue, done, logFile, remote, client, dry_run, tweet_files,
                   idx, cur, result, success_count, error_count, outcomes,
                   lastDry, runs, faults>>
    /\ UNCHANGED <<outfiles, pull, cli>>

\* the operator puts a line of white space into the file (or creates the
\* file with it), as test_load_pinned_tweets_existing does
WriteBlankLine(spaces) ==
    /\ Len(pinFile.lines) < MaxPinLines
    /\ pinFile' = [exists |-> TRUE,
                   lines |-> Append(pinFile.lines,
                                    IF spaces = 0 THEN <<>>
                                    ELSE <<R(" ", spaces)>>)]
    /\ pc' = "idle"
    /\ UNCHANGED <<queue, done, logFile, remote, client, dry_run, tweet_files,
                   idx, cur, result, success_count, error_count, trace,
                   outcomes, lastDry, runs, faults>>
    /\ UNCHANGED <<outfiles, pull, cli>>

\* pinned_tweets = load_pinned_tweets(pin_file_path)
LoadPinnedTweets ==
    /\ cur' = [pinned_tweets |-> load_pinned_tweets(pinFile)]
    /\ pc' = "loaded"
    /\ UNCHANGED <<queue, done, logFile, pinFile, remote, client, dry_run,
                   tweet_files, idx, result, success_count, error_count,
                   trace, outcomes, lastDry, runs, faults>>
    /\ UNCHANGED <<outfiles, pull, cli>>

NextPin ==
    \/ \E tweet_id \in PinIds : SavePinnedTweet(tweet_id)
    \/ \E spaces \in 0..1 : WriteBlankLine(spaces)
    \/ LoadPinnedTweets

SpecPin == InitPin /\ [][NextPin]_vars

(* C24: load_pinned_tweets returns the empty list for a missing file, and *)
(* after save_pinned_tweet was called with ids i1..in it returns exactly  *)
(* <<i1, .., in>>: in the order of the calls, duplicates kept, the blank   *)
(* lines of the file skipped.                                             *)
C24_PinnedRoundTrip ==
    LET saved == [i \in DOMAIN trace |-> trace[i].n]
    IN  /\ ~pinFile.exists => load_pinned_tweets(pinFile) = <<>>
        /\ load_pinned_tweets(pinFile) = saved
        /\ pc = "loaded" => cur.pinned_tweets = saved

\* the same id saved twice around another one, a blank line in between
C24_Witness ==
    /\ pc = "loaded"
    /\ Len(pinFile.lines) = 4
    /\ \E i \in DOMAIN pinFile.lines : strip(pinFile.lines[i]) = <<>>
    /\ cur.pinned_tweets = << <<R("x", 1)>>, <<R("x", 2)>>, <<R("x", 1)>> >>

-----------------------------------------------------------------------------
(* commands/metrics.py: pull_metrics.  The API's answer is the            *)
(* environment's choice; the timestamp of the data is left out.           *)

MetricNames == {"followers_count", "following_count", "tweet_count",
                "listed_count", "like_count"}

\* answers of GET /2/users/by/username/<user>: the user with all counts,
\* with a count missing, without public_metrics, and no user at all
Responses ==
    {[data |-> [id |-> "12345", name |-> "Test User",
                public_metrics |-> [followers_count |-> 1000,
                                    following_count |-> 500,
                                    tweet_count |-> 250,
                                    listed_count |-> 10,
                                    like_count |-> 5000]]],
     [data |-> [id |-> "12345", name |-> "Test User",
                public_metrics |-> [followers_count |-> 1000,
                                    following_count |-> 500,
                                    tweet_count |-> 250,
                                    listed_count |-> 10]]],
     [data |-> [id |-> "12345", name |-> "Test User"]],
     [errors |-> "Not Found"]}

\* metrics_data with every count taken as 0
metrics_data_zeroed(user, response) ==
    [username |-> user,
     user_id |-> get(response.data, "id", None),
     name |-> get(response.data, "name", None),
     metrics |-> [k \in MetricNames |-> 0]]

\* metrics_data = {...}: a count the answer lacks is 0
metrics_data(user, response) ==
    LET public_metrics == get(response.data, "public_metrics", <<>>)
    IN  [username |-> user,
         user_id |-> get(response.data, "id", None),
         name |-> get(response.data, "name", None),
         metrics |-> [k \in MetricNames |-> get(public_metrics, k, 0)]]

InitMetrics ==
    /\ queue = {FileN}
    /\ done = {}
    /\ logFile = <<>>
    /\ pinFile = <<>>
    /\ remote = <<>>
    /\ client = NoClient
    /\ pc = "idle"
    /\ dry_run = FALSE
    /\ tweet_files = <<>>
    /\ idx = 0
    /\ cur = NoCur
    /\ result = NoResult
    /\ success_count = 0
    /\ error_count = 0
    /\ trace = <<>>
    /\ outcomes = <<>>
    /\ lastDry = NoDry
    /\ runs = 0
    /\ faults = 0
    /\ outfiles = NoFiles
    /\ pull = NoPull
    /\ cli = NoCli

autopost == <<queue, done, logFile, pinFile, remote, client, pc, dry_run,
              tweet_files, idx, cur, result, success_count, error_count,
              trace, outcomes, lastDry, runs, faults>>

\* pull_metrics is invoked: client = XAPIClient()
PullMetrics(user, dry, outfile) ==
    /\ pull.pc \in {"none", "exited"}
    /\ pull.n < MaxPulls
    /\ pull' = [NoPull EXCEPT !.pc = "fetch", !.n = pull.n + 1, !.user = user,
                              !.dry_run = dry, !.outfile = outfile,
                              !.before = outfiles]
    /\ UNCHANGED <<autopost, outfiles, cli>>

\* client.get_user_metrics(user) returns; the "data" check, metrics_data,
\* _display_metrics and the dry-run return
GetReturns(response) ==
    /\ pull.pc = "fetch"
    /\ IF "data" \notin DOMAIN response
       THEN pull' = [pull EXCEPT !.pc = "exited", !.exit_code = 1,
                                 !.calls = pull.calls + 1,
                                 !.response = response]
       ELSE LET data == metrics_data(pull.user, response)
            IN  pull' = [pull EXCEPT !.pc = IF pull.dry_run THEN "exited"
                                            ELSE "write",
                                     !.calls = pull.calls + 1,
                                     !.response = response,
                                     !.metrics_data = data,
                                     !.displayed = data.metrics]
    /\ UNCHANGED <<autopost, outfiles, cli>>

\* client.get_user_metrics(user) raises: the except clause, typer.Exit(1)
GetRaises ==
    /\ pull.pc = "fetch"
    /\ pull' = [pull EXCEPT !.pc = "exited", !.exit_code = 1,
                            !.calls = pull.calls + 1]
    /\ UNCHANGED <<autopost, outfiles, cli>>

\* the output file name, open(output_path, "w") and json.dump
WriteOutfile ==
    /\ pull.pc = "write"
    /\ LET path == IF pull.outfile = "" THEN default_outfile ELSE pull.outfile
       IN  outfiles' = [outfiles EXCEPT
                           ![path] = [exists |-> TRUE,
                                      data |-> pull.metrics_data]]
    /\ pull' = [pull EXCEPT !.pc = "exited", !.exit_code = 0]
    /\ UNCHANGED <<autopost, cli>>

NextMetrics ==
    \/ \E user \in {"testuser", "other"}, dry \in BOOLEAN,
          outfile \in {"", "custom_metrics.json"} :
             PullMetrics(user, dry, outfile)
    \/ \E response \in Responses : GetReturns(response)
    \/ GetRaises
    \/ WriteOutfile

SpecMetrics == InitMetrics /\ [][NextMetrics]_vars

(* C25: "metrics pull" with --dry-run fetches the user's metrics once and *)
(* displays them but writes no file; without --dry-run it writes exactly  *)
(* one file, at the path asked for, holding the requested username and    *)
(* the five public metric counts displayed; with an answer without data   *)
(* it exits with code 1, displays nothing and writes no file.             *)
C25_MetricsPull ==
    pull.pc = "exited" =>
       /\ pull.calls = 1
       /\ pull.exit_code \in {0, 1}
       /\ pull.exit_code = 1 =>
             /\ "data" \notin DOMAIN pull.response
             /\ pull.displayed = <<>>
             /\ outfiles = pull.before
       /\ (pull.exit_code = 0 /\ pull.dry_run) =>
             /\ DOMAIN pull.displayed = MetricNames
             /\ \A k \in MetricNames :
                   pull.displayed[k] =
                      get(get(pull.response.data, "public_metrics", <<>>), k, 0)
             /\ outfiles = pull.before
       /\ (pull.exit_code = 0 /\ ~pull.dry_run) =>
             LET path == IF pull.outfile = "" THEN default_outfile
                         ELSE pull.outfile
             IN  /\ \A p \in DOMAIN outfiles :
                       p # path => outfiles[p] = pull.before[p]
                 /\ outfiles[path].exists
                 /\ outfiles[path].data.username = pull.user
                 /\ DOMAIN outfiles[path].data.metrics = MetricNames
                 /\ outfiles[path].data.metrics = pull.displayed
                 /\ "data" \in DOMAIN pull.response
                 /\ \A k \in MetricNames :
                       outfiles[path].data.metrics[k] =
                          get(get(pull.response.data, "public_metrics", <<>>),
                              k, 0)

\* a dry run after a live one: the counts of the test's answer were shown,
\* the file of the first run is as it was
C25_Witness ==
    /\ pull.pc = "exited"
    /\ pull.n = 2
    /\ pull.dry_run
    /\ pull.exit_code = 0
    /\ pull.displayed["followers_count"] = 1000
    /\ outfiles["custom_metrics.json"].exists
    /\ outfiles["custom_metrics.json"].data.username = "testuser"
    /\ outfiles["custom_metrics.json"].data.metrics["like_count"] = 5000
    /\ ~outfiles[default_outfile].exists

-----------------------------------------------------------------------------
(* C26: a live success has its effects in the order post, pin (if asked   *)
(* for), LogRecord, pinned-id line (if pinned), move; the move comes      *)
(* last, so a file the runs have moved to the done directory has a        *)
(* success LogRecord in the log and, if it was pinned, its id in the      *)
(* pinned-ids file; the same holds of the item about to be moved.         *)
C26_RelocationLast ==
    LET Recorded(file) ==
            \E k \in DOMAIN logFile :
               /\ logFile[k].filename = file.name
               /\ logFile[k].success
               /\ get(file.metadata, "pin", FALSE) =>
                     \E j \in DOMAIN pinFile : pinFile[j] = logFile[k].tweet_id
    IN  /\ \A file \in done \ {FileOldA} : Recorded(file)
        /\ pc = "move" =>
              /\ Recorded(CurrentFile)
              /\ PostCalls(trace) # <<>>
              /\ CurrentFile \in queue
        /\ pc = "save_pinned" =>
              /\ logFile # <<>>
              /\ logFile[Len(logFile)].filename = CurrentFile.name
              /\ PinCalls(trace) # <<>>

-----------------------------------------------------------------------------
(* C27: validate_tweet_length and post_tweet's own length check agree:    *)
(* the validator accepts a text iff the client would not raise its        *)
(* too-long error; so post_tweet never raises that error in the pipeline, *)
(* where it is only called with a text the validator has accepted.        *)
C27_LengthChecksAgree ==
    /\ (pc = "idle" /\ runs = 0) =>
          \A n \in 0..(MaxTweetLength + 2) :
             validate_tweet_length(<<R("x", n)>>, MaxTweetLength)
                <=> ~(len(<<R("x", n)>>) > ClientMaxLength)
    /\ (pc = "item" /\ parse_ok(CurrentFile)) =>
          LET text == normalized_text(CurrentFile)
          IN  validate_tweet_length(text, MaxTweetLength)
                 <=> post_tweet(text, CurrentFile.metadata).result
                        # Caught(TooLongError(len(text)))
    /\ (Returned_ /\ PostCalls(trace) # <<>>) =>
          result # Caught(TooLongError(PostCalls(trace)[1].n))
    /\ \A i \in DOMAIN outcomes :
          PostCalls(outcomes[i].trace) # <<>> =>
             outcomes[i].result #
                Caught(TooLongError(PostCalls(outcomes[i].trace)[1].n))

\* a text of exactly 280 characters has passed the validator and the
\* client's check
C27_Witness ==
    /\ pc = "pace"
    /\ len(cur.text) = 280
    /\ validate_tweet_length(cur.text, MaxTweetLength)
    /\ PostCalls(trace) = <<EvPostTweet(cur.text)>>

-----------------------------------------------------------------------------
-----------------------------------------------------------------------------
(* C29: in every LogRecord, success is true iff the post id is not empty  *)
(* iff the error is null; so a failure record has an empty id and an      *)
(* error message, and a success record carries the id the publish call    *)
(* returned for its item.                                                 *)
C29_RecordConsistent ==
    \A k \in DOMAIN logFile :
       LET record == logFile[k]
       IN  /\ record.success <=> record.tweet_id # ""
           /\ record.success <=> record.error = None
           /\ record.success =>
                 \E j \in DOMAIN remote :
                    remote[j] = [id |-> record.tweet_id,
                                 file |-> record.filename]

\* the log holds the success record of a posted item and the failure record
\* of another
C29_Witness ==
    /\ Len(logFile) = 2
    /\ logFile[1].success
    /\ logFile[1].tweet_id = "t1"
    /\ ~logFile[2].success
    /\ logFile[2].error = PostFailed(HttpError(403))
    /\ logFile[2].filename # logFile[1].filename

-----------------------------------------------------------------------------
(* C30: at the end of a live run the LogRecords the run appended agree    *)
(* with its summary: as many success records as the success count, as     *)
(* many failure records as the error count, also when a relocation        *)
(* failed.  (Stated of the first run, whose log starts empty.)            *)
C30_LogAgreesWithSummary ==
    (pc = "summary" /\ ~dry_run /\ runs = 1) =>
       /\ Cardinality({k \in DOMAIN logFile : logFile[k].success})
             = success_count
       /\ Cardinality({k \in DOMAIN logFile : ~logFile[k].success})
             = error_count

-----------------------------------------------------------------------------
(* C31: in a live run whose client has no OAuth session (incomplete       *)
(* credentials) no publish or pin request is sent for any item; every     *)
(* item that passes validation ends in the Failure "OAuth session not     *)
(* initialized", every item is counted as an error and stays in the queue *)
(* directory, and the summary is reached with all selected items counted. *)
C31_NoSessionNoRequest ==
    (pc # "idle" /\ ~dry_run /\ ~client.session) =>
       /\ pc \in {"item", "record", "summary"}
       /\ PostRequests(trace) = <<>> /\ PinRequests(trace) = <<>>
       /\ (pc = "record" /\ Valid(CurrentFile)) =>
             /\ result = Caught("OAuth session not initialized")
             /\ PostCalls(trace) # <<>>
       /\ \A i \in DOMAIN outcomes :
             /\ PostRequests(outcomes[i].trace) = <<>>
             /\ PinRequests(outcomes[i].trace) = <<>>
             /\ outcomes[i].counted = "error"
             /\ tweet_files[i] \in queue
             /\ Valid(tweet_files[i]) =>
                   outcomes[i].result = Caught("OAuth session not initialized")
       /\ remote = <<>> \/ runs > 1
       /\ pc = "summary" =>
             /\ Len(outcomes) = Len(tweet_files)
             /\ success_count = 0
             /\ error_count = Len(tweet_files)

\* a live run without session at its summary: a valid item and a too long
\* one, both errors, both still queued, nothing sent
C31_Witness ==
    /\ pc = "summary"
    /\ ~dry_run
    /\ ~client.session
    /\ runs = 1
    /\ Len(outcomes) = 2
    /\ \E i \in DOMAIN outcomes :
          /\ Valid(tweet_files[i])
          /\ outcomes[i].result.error = NoSessionError
    /\ \E i \in DOMAIN outcomes : ~Valid(tweet_files[i])
    /\ error_count = 2
    /\ remote = <<>>
    /\ logFile # <<>>

-----------------------------------------------------------------------------
(* Runs with a negative --max-tweets: the option is a plain int, and      *)
(* tweet_files[:max_tweets] with a negative bound drops items from the    *)
(* end of the list instead of taking none.                                *)

NegativeCaps == {-1, -2}

NextCap ==
    \/ \E dry \in BOOLEAN, cap \in NegativeCaps : AutopostRunEmpty(dry, cap)
    \/ \E dry \in BOOLEAN, cap \in NegativeCaps, cred \in BOOLEAN :
          AutopostRun(dry, cap, cred)
    \/ ProcessTweetFile
    \/ Pace
    \/ \E status \in PostStatuses : SessionPostReturns(status)
    \/ SessionPostRaises
    \/ Cooldown
    \/ \E status \in PinStatuses : PinReturns(status)
    \/ PinRaises
    \/ CountDrySuccess
    \/ LogSuccess
    \/ SavePinned
    \/ MoveSucceeds
    \/ MoveFails
    \/ RecordFailure
    \/ DisplaySummary
    \/ Terminate

SpecCap == Init /\ [][NextCap]_vars

(* C32: the number of items a run selects and processes never exceeds     *)
(* max(N, 0) for its cap N; here every run has a negative cap, so no run  *)
(* selects or processes an item.                                          *)
C32_CapNeverExceeded ==
    \A cap \in NegativeCaps :
       /\ Len(tweet_files) <= Max(cap, 0)
       /\ Len(outcomes) <= Max(cap, 0)

-----------------------------------------------------------------------------
(* utils/twitter.py: the client singleton over the calls of one process.  *)
(* The credentials of the settings may differ from call to call; a client *)
(* keeps the session it was built with, which tells instances apart.      *)

\* get_twitter_client(dry_run=dry)
GetTwitterClient(dry, credentials_complete) ==
    /\ Len(trace) < MaxCalls
    /\ client' = get_twitter_client(client, dry, credentials_complete)
    /\ trace' = Append(trace, Event("get_twitter_client",
                                    [dry_run |-> dry,
                                     credentials |-> credentials_complete,
                                     returned |-> client']))
    /\ UNCHANGED <<queue, done, logFile, pinFile, remote, pc, dry_run,
                   tweet_files, idx, cur, result, success_count, error_count,
                   outcomes, lastDry, runs, faults, outfiles, pull, cli>>

NextClient ==
    \E dry \in BOOLEAN, credentials_complete \in BOOLEAN :
       GetTwitterClient(dry, credentials_complete)

SpecClient == InitMetrics /\ [][NextClient]_vars

(* C33: every get_twitter_client call returns a client whose dry_run is   *)
(* the flag asked for, and a call with the same flag as the call before   *)
(* it returns the same instance.                                          *)
C33_ClientMatchesFlag ==
    /\ \A i \in DOMAIN trace :
          /\ trace[i].n.returned.exists
          /\ trace[i].n.returned.dry_run = trace[i].n.dry_run
          /\ trace[i].n.dry_run => ~trace[i].n.returned.session
    /\ \A i \in DOMAIN trace :
          (i > 1 /\ trace[i].n.dry_run = trace[i - 1].n.dry_run) =>
             trace[i].n.returned = trace[i - 1].n.returned
    /\ trace # <<>> => client = trace[Len(trace)].n.returned

\* live without credentials, live again once the credentials are there
\* (the same client, still without session), dry, and live anew
C33_Witness ==
    /\ Len(trace) = 4
    /\ ~trace[1].n.dry_run /\ ~trace[1].n.returned.session
    /\ ~trace[2].n.dry_run /\ trace[2].n.credentials
    /\ trace[2].n.returned = trace[1].n.returned
    /\ trace[3].n.dry_run /\ trace[3].n.returned.dry_run
    /\ ~trace[4].n.dry_run /\ trace[4].n.returned.session

-----------------------------------------------------------------------------
(* cli.py: the app's callback and the counters of metrics.py, over the    *)
(* invocations of the app in one process.  typer runs the callback main   *)
(* first and the subcommand after main has returned.                      *)

\* main(ctx): without a subcommand it returns at once; otherwise RUNS.inc()
\* and the try block, whose body is "pass": nothing is raised in it, the
\* except clause with FAILURES.inc() is not entered
Main(subcommand) ==
    /\ cli.pc = "none"
    /\ Len(cli.invoked) < MaxInvocations
    /\ cli' = IF subcommand = ""
              THEN cli
              ELSE [cli EXCEPT !.pc = "command",
                               !.RUNS = cli.RUNS + 1,
                               !.invoked = Append(cli.invoked,
                                                  [subcommand |-> subcommand,
                                                   raised |-> FALSE])]
    /\ UNCHANGED <<autopost, outfiles, pull>>

\* the subcommand returns
CommandReturns ==
    /\ cli.pc = "command"
    /\ cli' = [cli EXCEPT !.pc = "none"]
    /\ UNCHANGED <<autopost, outfiles, pull>>

\* the subcommand raises an exception: main has returned before, the
\* exception passes through no handler of cli.py
CommandRaises ==
    /\ cli.pc = "command"
    /\ cli' = [cli EXCEPT !.pc = "none",
                          !.invoked[Len(cli.invoked)].raised = TRUE]
    /\ UNCHANGED <<autopost, outfiles, pull>>

NextCli ==
    \/ \E subcommand \in {"", "metrics", "autopost"} : Main(subcommand)
    \/ CommandReturns
    \/ CommandRaises

SpecCli == InitMetrics /\ [][NextCli]_vars

(* C34: the counters agree with what happened: RUNS counts the invoked    *)
(* subcommands, once each, and FAILURES counts the runs whose subcommand  *)
(* raised an exception.                                                   *)
C34_CountersConsistent ==
    /\ cli.RUNS = Len(cli.invoked)
    /\ cli.FAILURES =
          Cardinality({i \in DOMAIN cli.invoked : cli.invoked[i].raised})

====
